---------------------------- MODULE Spec2Model ----------------------------
(***************************************************************************)
(* Model of the regex sentence splitter of src/text_splitter.py            *)
(* (class TextSplitter).  A text (a Python str) is a sequence of           *)
(* characters, so every regular expression and every str method of the     *)
(* source is computed character by character, as Python computes it.       *)
(* A character is a TLA+ string: the character itself where a TLA+ string  *)
(* can hold it, and the name of its code point, as "U+201D", where it      *)
(* cannot.                                                                 *)
(***************************************************************************)
EXTENDS Integers, Sequences, FiniteSets, TLC

VARIABLES text, buf, sentences, pc

vars == <<text, buf, sentences, pc>>

----------------------------------------------------------------------------
(* Strings.                                                                *)

\* A str literal of the source: the characters of the TLA+ string s.
Chars(s) == [i \in 1..Len(s) |-> SubSeq(s, i, i)]

\* s[i-1] in Python terms: the i-th character, "" outside the text.
At(s, i) == IF i >= 1 /\ i <= Len(s) THEN s[i] ELSE ""

\* s.startswith(w, i-1)
StartsAt(s, i, w) ==
    /\ i >= 1
    /\ i + Len(w) - 1 <= Len(s)
    /\ SubSeq(s, i, i + Len(w) - 1) = w

\* s[i-1:]
From(s, i) == IF i > Len(s) THEN << >> ELSE SubSeq(s, i, Len(s))

\* w in s
Contains(s, w) == \E i \in 1..(Len(s) + 1) : StartsAt(s, i, w)

EndsWith(s, w) == Len(w) <= Len(s) /\ StartsAt(s, Len(s) - Len(w) + 1, w)

Min(S) == CHOOSE k \in S : \A j \in S : k <= j

\* str.replace(old, new): every non-overlapping occurrence, left to right.
RECURSIVE ReplaceFrom(_, _, _, _)
ReplaceFrom(s, i, old, new) ==
    IF i > Len(s) THEN << >>
    ELSE IF StartsAt(s, i, old)
         THEN new \o ReplaceFrom(s, i + Len(old), old, new)
         ELSE << s[i] >> \o ReplaceFrom(s, i + 1, old, new)

StrReplace(s, old, new) == ReplaceFrom(s, 1, old, new)

\* str.split(sep): the fragments between the non-overlapping occurrences.
RECURSIVE SplitFrom(_, _, _, _)
SplitFrom(s, i, start, sep) ==
    IF i > Len(s) THEN << From(s, start) >>
    ELSE IF StartsAt(s, i, sep)
         THEN << SubSeq(s, start, i - 1) >>
                  \o SplitFrom(s, i + Len(sep), i + Len(sep), sep)
         ELSE SplitFrom(s, i + 1, start, sep)

StrSplit(s, sep) == SplitFrom(s, 1, 1, sep)

\* The characters \s matches (a str pattern) and str.strip() removes, the
\* ones for which str.isspace() holds: space, U+0009, U+000A, U+000D and
\* U+000C; then U+000B, U+001C, U+001D, U+001E, U+001F, U+0085, U+00A0 and
\* U+1680, each written as itself; then the ones written by name.
whitespace ==
    {" ", "\t", "\n", "\r", "\f",
     "", "", "", "", "", "", " ", " ",
     "U+2000", "U+2001", "U+2002", "U+2003", "U+2004", "U+2005", "U+2006",
     "U+2007", "U+2008", "U+2009", "U+200A", "U+2028", "U+2029", "U+202F",
     "U+205F", "U+3000"}

RECURSIVE LStrip(_)
LStrip(s) == IF Len(s) > 0 /\ At(s, 1) \in whitespace THEN LStrip(Tail(s)) ELSE s

RECURSIVE RStrip(_)
RStrip(s) ==
    IF Len(s) > 0 /\ At(s, Len(s)) \in whitespace
    THEN RStrip(SubSeq(s, 1, Len(s) - 1))
    ELSE s

\* str.strip()
Strip(s) == LStrip(RStrip(s))

----------------------------------------------------------------------------
(* The regex patterns of lines 13-20.                                      *)

upper == {"A", "B", "C", "D", "E", "F", "G", "H", "I", "J", "K", "L", "M",
          "N", "O", "P", "Q", "R", "S", "T", "U", "V", "W", "X", "Y", "Z"}

lower == {"a", "b", "c", "d", "e", "f", "g", "h", "i", "j", "k", "l", "m",
          "n", "o", "p", "q", "r", "s", "t", "u", "v", "w", "x", "y", "z"}

\* alphabets = "([A-Za-z])"
alphabets == upper \cup lower

\* digits = "([0-9])"
digits == {"0", "1", "2", "3", "4", "5", "6", "7", "8", "9"}

\* prefixes = "(Mr|St|Mrs|Ms|Dr)[.]": the length matched at i, 0 for none
\* (the alternatives are tried in the order written).
prefixAlts == << Chars("Mr"), Chars("St"), Chars("Mrs"), Chars("Ms"), Chars("Dr") >>

\* prefixes anchored at the start of a word, as "\b(Mr|St|Mrs|Ms|Dr)[.]".
prefixes_WordStart(s, i) ==
    LET ks == {k \in DOMAIN prefixAlts : StartsAt(s, i, prefixAlts[k] \o << "." >>)}
    IN  IF ks = {} \/ At(s, i - 1) \in alphabets \cup digits \cup {"_"} THEN 0
        ELSE Len(prefixAlts[Min(ks)]) + 1

prefixes(s, i) ==
    LET ks == {k \in DOMAIN prefixAlts : StartsAt(s, i, prefixAlts[k] \o << "." >>)}
    IN  IF ks = {} THEN 0 ELSE Len(prefixAlts[Min(ks)]) + 1

\* suffixes = "(Inc|Ltd|Jr|Sr|Co)" followed by "[.]", as every use of it is:
\* the length of the suffix word matched at i, 0 for none.
suffixAlts ==
    << Chars("Inc"), Chars("Ltd"), Chars("Jr"), Chars("Sr"), Chars("Co") >>

suffixes(s, i) ==
    LET ks == {k \in DOMAIN suffixAlts : StartsAt(s, i, suffixAlts[k] \o << "." >>)}
    IN  IF ks = {} THEN 0 ELSE Len(suffixAlts[Min(ks)])

\* starters: each alternative is a word, most of them followed by \s.  It
\* is the last element of the two patterns that use it, so the first
\* alternative that matches is the one taken.  The length matched at i
\* (the whitespace character included), 0 for none.
starterAlts ==
    << [w |-> Chars("Mr"), sp |-> FALSE], [w |-> Chars("Mrs"), sp |-> FALSE],
       [w |-> Chars("Ms"), sp |-> FALSE], [w |-> Chars("Dr"), sp |-> FALSE],
       [w |-> Chars("He"), sp |-> TRUE], [w |-> Chars("She"), sp |-> TRUE],
       [w |-> Chars("It"), sp |-> TRUE], [w |-> Chars("They"), sp |-> TRUE],
       [w |-> Chars("Their"), sp |-> TRUE], [w |-> Chars("Our"), sp |-> TRUE],
       [w |-> Chars("We"), sp |-> TRUE], [w |-> Chars("But"), sp |-> TRUE],
       [w |-> Chars("However"), sp |-> TRUE], [w |-> Chars("That"), sp |-> TRUE],
       [w |-> Chars("This"), sp |-> TRUE],
       [w |-> Chars("Wherever"), sp |-> FALSE] >>

StarterAt(s, i, a) ==
    /\ StartsAt(s, i, a.w)
    /\ a.sp => At(s, i + Len(a.w)) \in whitespace

starters(s, i) ==
    LET ks == {k \in DOMAIN starterAlts : StarterAt(s, i, starterAlts[k])}
        a == starterAlts[Min(ks)]
    IN  IF ks = {} THEN 0 ELSE Len(a.w) + (IF a.sp THEN 1 ELSE 0)

\* [A-Z][.] at i
UpperDot(s, i) == At(s, i) \in upper /\ At(s, i + 1) = "."

\* acronyms = "([A-Z][.][A-Z][.](?:[A-Z][.])?)": the lengths it can match at
\* i, the greedy one (with the optional third letter) first.
acronyms(s, i) ==
    IF UpperDot(s, i) /\ UpperDot(s, i + 2)
    THEN IF UpperDot(s, i + 4) THEN << 6, 4 >> ELSE << 4 >>
    ELSE << >>

\* websites = "[.](com|net|org|io|gov|uk)": the length matched at i.
websiteAlts ==
    << Chars("com"), Chars("net"), Chars("org"), Chars("io"), Chars("gov"),
       Chars("uk") >>

websites(s, i) ==
    LET ks == {k \in DOMAIN websiteAlts : StartsAt(s, i, << "." >> \o websiteAlts[k])}
    IN  IF ks = {} THEN 0 ELSE Len(websiteAlts[Min(ks)]) + 1

\* [A-Za-z][.] at i
AlphaDot(s, i) == At(s, i) \in alphabets /\ At(s, i + 1) = "."

\* urls (line 20): "((http|https)\:\/\/)" [class1]+ "\." [a-zA-Z]{2,6}
\* [class2]*.  class1 is [a-zA-Z0-9\.\/\?\:@\-_=#]; class2 adds "&".
urlClass1 == alphabets \cup digits \cup {".", "/", "?", ":", "@", "-", "_", "=", "#"}

urlClass2 == urlClass1 \cup {"&"}

\* The number of consecutive characters of class C from position i on.
RECURSIVE RunLen(_, _, _)
RunLen(s, i, C) == IF At(s, i) \in C THEN 1 + RunLen(s, i + 1, C) ELSE 0

Max(S) == CHOOSE k \in S : \A j \in S : k >= j

\* The end (exclusive) of the match of urls at i, 0 for none.  [class1]+ is
\* greedy and backtracks to the last period followed by two letters; the
\* letters and [class2]* then take all they can.
urls(s, i) ==
    LET sch == IF StartsAt(s, i, Chars("http://")) THEN 7
               ELSE IF StartsAt(s, i, Chars("https://")) THEN 8 ELSE 0
        p == i + sch
        ls == {l \in 1..RunLen(s, p, urlClass1) :
                 /\ At(s, p + l) = "."
                 /\ At(s, p + l + 1) \in alphabets
                 /\ At(s, p + l + 2) \in alphabets}
        d == p + Max(ls)
    IN  IF sch = 0 \/ ls = {} THEN 0
        ELSE d + 1 + RunLen(s, d + 1, urlClass2)

\* re.compile(urls).finditer(text) (line 124): the spans <<first, last>> of
\* the matches, found left to right without overlap.
RECURSIVE UrlMatchesFrom(_, _)
UrlMatchesFrom(s, i) ==
    IF i > Len(s) THEN {}
    ELSE LET e == urls(s, i)
         IN  IF e > 0 THEN {<<i, e - 1>>} \cup UrlMatchesFrom(s, e)
             ELSE UrlMatchesFrom(s, i + 1)

UrlMatches(s) == UrlMatchesFrom(s, 1)

\* re.compile(r"(\.)(\.+)").finditer(text) (line 129): the spans of the
\* maximal runs of two or more periods.
EllipsisMatches(s) ==
    {sp \in (1..Len(s)) \X (1..Len(s)) :
        /\ sp[1] < sp[2]
        /\ \A k \in sp[1]..sp[2] : At(s, k) = "."
        /\ At(s, sp[1] - 1) # "."
        /\ At(s, sp[2] + 1) # "."}

----------------------------------------------------------------------------
(* process_substitutions: the ten re.sub calls of lines 91-102.  A rule is *)
(* an operator giving, for a position i of s, the length n its pattern     *)
(* matches there (0: no match) and the text r that replaces the match.     *)

PRD == Chars("<prd>")
STOP == Chars("<stop>")

NoMatch == [n |-> 0, r |-> << >>]

\* line 91: re.sub(prefixes, "\\1<prd>", text)
Rule1(s, i) ==
    LET n == prefixes(s, i)
    IN  IF n = 0 THEN NoMatch
        ELSE [n |-> n, r |-> SubSeq(s, i, i + n - 2) \o PRD]

\* line 92: re.sub(websites, "<prd>\\1", text)
Rule2(s, i) ==
    LET n == websites(s, i)
    IN  IF n = 0 THEN NoMatch
        ELSE [n |-> n, r |-> PRD \o SubSeq(s, i + 1, i + n - 1)]

\* Rule3 with the placeholder left out of the replacement.
Rule3_NoPlaceholder(s, i) ==
    IF At(s, i) \in digits /\ At(s, i + 1) = "." /\ At(s, i + 2) \in digits
    THEN [n |-> 3, r |-> SubSeq(s, i, i + 2)]
    ELSE NoMatch

\* line 93: re.sub(digits + "[.]" + digits, "\\1<prd>\\2", text)
Rule3(s, i) ==
    IF At(s, i) \in digits /\ At(s, i + 1) = "." /\ At(s, i + 2) \in digits
    THEN [n |-> 3, r |-> << s[i] >> \o PRD \o << s[i + 2] >>]
    ELSE NoMatch

\* line 94: re.sub("\s" + alphabets + "[.] ", " \\1<prd> ", text)
Rule4(s, i) ==
    IF At(s, i) \in whitespace /\ AlphaDot(s, i + 1) /\ At(s, i + 3) = " "
    THEN [n |-> 4, r |-> << " ", s[i + 1] >> \o PRD \o << " " >>]
    ELSE NoMatch

\* Rule5 with the boundary token left out of the replacement.
Rule5_NoStop(s, i) ==
    LET as == acronyms(s, i)
        ks == {k \in DOMAIN as :
                 At(s, i + as[k]) = " " /\ starters(s, i + as[k] + 1) > 0}
        a  == as[Min(ks)]
        st == starters(s, i + a + 1)
    IN  IF ks = {} THEN NoMatch
        ELSE [n |-> a + 1 + st, r |-> SubSeq(s, i, i + a + st)]

\* line 95: re.sub(acronyms+" "+starters, "\\1<stop> \\2", text)
Rule5(s, i) ==
    LET as == acronyms(s, i)
        ks == {k \in DOMAIN as :
                 At(s, i + as[k]) = " " /\ starters(s, i + as[k] + 1) > 0}
        a  == as[Min(ks)]
        st == starters(s, i + a + 1)
    IN  IF ks = {} THEN NoMatch
        ELSE [n |-> a + 1 + st,
              r |-> SubSeq(s, i, i + a - 1) \o STOP \o << " " >>
                      \o SubSeq(s, i + a + 1, i + a + st)]

\* lines 96-97: three letter-period pairs
Rule6(s, i) ==
    IF AlphaDot(s, i) /\ AlphaDot(s, i + 2) /\ AlphaDot(s, i + 4)
    THEN [n |-> 6,
          r |-> << s[i] >> \o PRD \o << s[i + 2] >> \o PRD
                  \o << s[i + 4] >> \o PRD]
    ELSE NoMatch

\* lines 98-99: two letter-period pairs
Rule7(s, i) ==
    IF AlphaDot(s, i) /\ AlphaDot(s, i + 2)
    THEN [n |-> 4, r |-> << s[i] >> \o PRD \o << s[i + 2] >> \o PRD]
    ELSE NoMatch

\* line 100: re.sub(" "+suffixes+"[.] "+starters, " \\1<stop> \\2", text)
Rule8(s, i) ==
    LET sf == suffixes(s, i + 1)
        st == starters(s, i + sf + 3)
    IN  IF At(s, i) = " " /\ sf > 0 /\ At(s, i + sf + 2) = " " /\ st > 0
        THEN [n |-> sf + 3 + st,
              r |-> << " " >> \o SubSeq(s, i + 1, i + sf) \o STOP \o << " " >>
                      \o SubSeq(s, i + sf + 3, i + sf + 2 + st)]
        ELSE NoMatch

\* line 101: re.sub(" "+suffixes+"[.]", " \\1<prd>", text)
Rule9(s, i) ==
    LET sf == suffixes(s, i + 1)
    IN  IF At(s, i) = " " /\ sf > 0
        THEN [n |-> sf + 2, r |-> << " " >> \o SubSeq(s, i + 1, i + sf) \o PRD]
        ELSE NoMatch

\* Rule10 with [A-Z] in place of [A-Za-z].
Rule10_UpperOnly(s, i) ==
    IF At(s, i) = " " /\ UpperDot(s, i + 1)
    THEN [n |-> 3, r |-> << " ", s[i + 1] >> \o PRD]
    ELSE NoMatch

\* line 102: re.sub(" " + alphabets + "[.]", " \\1<prd>", text)
Rule10(s, i) ==
    IF At(s, i) = " " /\ AlphaDot(s, i + 1)
    THEN [n |-> 3, r |-> << " ", s[i + 1] >> \o PRD]
    ELSE NoMatch

NumRules == 10

Rule(k, s, i) ==
    CASE k = 1 -> Rule1(s, i)
      [] k = 2 -> Rule2(s, i)
      [] k = 3 -> Rule3(s, i)
      [] k = 4 -> Rule4(s, i)
      [] k = 5 -> Rule5(s, i)
      [] k = 6 -> Rule6(s, i)
      [] k = 7 -> Rule7(s, i)
      [] k = 8 -> Rule8(s, i)
      [] k = 9 -> Rule9(s, i)
      [] k = 10 -> Rule10(s, i)

\* re.sub: scan left to right; at a match emit the replacement and go on
\* after the match (matches never overlap), else keep the character.
RECURSIVE ReSubFrom(_, _, _)
ReSubFrom(k, s, i) ==
    IF i > Len(s) THEN << >>
    ELSE LET m == Rule(k, s, i)
         IN  IF m.n > 0
             THEN m.r \o ReSubFrom(k, s, i + m.n)
             ELSE << s[i] >> \o ReSubFrom(k, s, i + 1)

re_sub(k, s) == ReSubFrom(k, s, 1)

\* The rules 1..k applied in order.
RECURSIVE ApplyRules(_, _)
ApplyRules(k, s) == IF k = 0 THEN s ELSE re_sub(k, ApplyRules(k - 1, s))

process_substitutions(t) == ApplyRules(NumRules, t)

\* lines 105-134: process_special_cases rebinds only its local name and has
\* no return statement: a call returns None, and split_into_sentences
\* (lines 69-75) does not call it.
None == "None"

process_special_cases(t) == None

\* The right double quotation mark of lines 150-151.
RDQUO == "U+201D"

\* lines 150-158
process_special_chars(t) ==
    LET t0 == IF Contains(t, << RDQUO >>)
              THEN StrReplace(t, << ".", RDQUO >>, << RDQUO, "." >>) ELSE t
        t1 == IF Contains(t0, << "\"" >>)
              THEN StrReplace(t0, << ".", "\"" >>, << "\"", "." >>) ELSE t0
        t2 == IF Contains(t1, << "!" >>)
              THEN StrReplace(t1, << "!", "\"" >>, << "\"", "!" >>) ELSE t1
        t3 == IF Contains(t2, << "?" >>)
              THEN StrReplace(t2, << "?", "\"" >>, << "\"", "?" >>) ELSE t2
    IN  t3

\* replace_placeholders without line 177, which restores the periods.
replace_placeholders_KeepPrd(t) ==
    LET t1 == StrReplace(t, << "." >>, << "." >> \o STOP)
        t2 == StrReplace(t1, << "?" >>, << "?" >> \o STOP)
    IN  StrReplace(t2, << "!" >>, << "!" >> \o STOP)

\* lines 174-178
replace_placeholders(t) ==
    LET t1 == StrReplace(t, << "." >>, << "." >> \o STOP)
        t2 == StrReplace(t1, << "?" >>, << "?" >> \o STOP)
        t3 == StrReplace(t2, << "!" >>, << "!" >> \o STOP)
    IN  StrReplace(t3, PRD, << "." >>)

\* Line 196 left out: the empty fragments stay.
NonEmpty_KeepAll(ss) == ss

\* line 196: [s for s in sentences if not len(s) == 0]
RECURSIVE NonEmpty(_)
NonEmpty(ss) ==
    IF ss = << >> THEN << >>
    ELSE IF Len(Head(ss)) = 0 THEN NonEmpty(Tail(ss))
         ELSE << Head(ss) >> \o NonEmpty(Tail(ss))

\* lines 194-197
create_sentences(t) ==
    LET parts == StrSplit(t, STOP)
        stripped == [k \in DOMAIN parts |-> Strip(parts[k])]
    IN  NonEmpty(stripped)

\* lines 69-75, as one function
split_into_sentences(t) ==
    create_sentences(replace_placeholders(process_special_chars(
        process_substitutions(
            StrReplace(<< " " >> \o t \o << " ", " " >>, << "\n" >>, << " " >>)))))

----------------------------------------------------------------------------
(* The inputs: the texts made of at most n pieces of a vocabulary V.       *)

RECURSIVE Join(_)
Join(w) == IF w = << >> THEN << >> ELSE Head(w) \o Join(Tail(w))

\* The pieces of a vocabulary, written as TLA+ strings.
Pieces(S) == {Chars(p) : p \in S}

Texts(V, n) == {Join(w) : w \in UNION {[1..k -> V] : k \in 0..n}}

MaxPieces == 4

\* The texts the specification and the claims name.
Examples ==
    Pieces({"Wait... What?", "The price is 3.14 dollars.",
            " J. Smith went home. He left.", "U.S. He left.",
            "Martin Luther King Jr. This is next.", "see http://ab.cd now",
            "I used ATMs. He left.", "He said \"Go.\" Now", "Inc. He left.",
            "1.2.3", "U.S. However, he left.",
            "J. Smith", "U.S. Heleft."})
    \cup {Chars("Go.") \o << RDQUO >> \o Chars(" Now"),
          Chars("U.S. He") \o << "U+2003" >> \o Chars("left.")}

Vocabulary ==
    Pieces({" ", ".", "J", "1", "?", "\"", "\t", "Inc. He"}) \cup {<< RDQUO >>}

Inputs == Examples \cup Texts(Vocabulary, MaxPieces)

----------------------------------------------------------------------------
(* split_into_sentences, one action per statement of lines 69-74.          *)

TypeOK ==
    /\ pc \in {"call", "padded", "joined", "substituted", "normalized",
               "materialized", "done"}
    /\ text \in Seq(STRING)
    /\ buf \in Seq(STRING)
    /\ sentences \in Seq(Seq(STRING))

\* line 69: text = " " + text + "  "
Pad ==
    /\ pc = "call"
    /\ buf' = << " " >> \o buf \o << " ", " " >>
    /\ pc' = "padded"
    /\ UNCHANGED <<text, sentences>>

\* line 70: text = text.replace("\n", " ")
Newlines ==
    /\ pc = "padded"
    /\ buf' = StrReplace(buf, << "\n" >>, << " " >>)
    /\ pc' = "joined"
    /\ UNCHANGED <<text, sentences>>

\* line 71
Substitute ==
    /\ pc = "joined"
    /\ buf' = process_substitutions(buf)
    /\ pc' = "substituted"
    /\ UNCHANGED <<text, sentences>>

\* line 72
SpecialChars ==
    /\ pc = "substituted"
    /\ buf' = process_special_chars(buf)
    /\ pc' = "normalized"
    /\ UNCHANGED <<text, sentences>>

\* line 73
Placeholders ==
    /\ pc = "normalized"
    /\ buf' = replace_placeholders(buf)
    /\ pc' = "materialized"
    /\ UNCHANGED <<text, sentences>>

\* lines 74-75
Sentences ==
    /\ pc = "materialized"
    /\ sentences' = create_sentences(buf)
    /\ pc' = "done"
    /\ UNCHANGED <<text, buf>>

Next ==
    \/ Pad
    \/ Newlines
    \/ Substitute
    \/ SpecialChars
    \/ Placeholders
    \/ Sentences

InitOn(T) ==
    /\ text \in T
    /\ buf = text
    /\ sentences = << >>
    /\ pc = "call"

Init == InitOn(Inputs)

Spec == Init /\ [][Next]_vars

----------------------------------------------------------------------------
(* The specifications of the claims: the same program on other inputs.     *)

MaxDecimal == 5

DecimalVocabulary == Pieces({"1", "2", ".", " ", "a", "1.2"})

SpecDecimal ==
    InitOn(Examples \cup Texts(DecimalVocabulary, MaxDecimal)) /\ [][Next]_vars

MaxInitial == 4

\* The whitespace pieces: space, U+0009, U+000A and U+000B.
InitialVocabulary ==
    Pieces({" ", "\t", "\n", "", "J", ".", "x", "K. ", "He "})

SpecInitial ==
    InitOn(Examples \cup Texts(InitialVocabulary, MaxInitial)) /\ [][Next]_vars

MaxTitle == 3

TitleVocabulary ==
    Pieces({"Mr", "St", "Mrs", "Ms", "Dr", ".", " ", "A.B. ", "Inc. ", "He ",
            "\"", "x", "AT"})

SpecTitle ==
    InitOn(Examples \cup Texts(TitleVocabulary, MaxTitle)) /\ [][Next]_vars

MaxToken == 4

TokenVocabulary == Pieces({"<", ">", "prd", "stop", ".", " ", "J", "1"})

SpecToken ==
    InitOn(Examples \cup Texts(TokenVocabulary, MaxToken)) /\ [][Next]_vars

\* An acronym, a space and a starter word, with at most MaxAround pieces
\* before and after them.
MaxAround == 1

AcronymTexts ==
    {pre \o acr \o << " " >> \o starterAlts[k].w \o post :
        pre \in Texts(Pieces({"a.", "B.", " ", "x"}), MaxAround),
        acr \in Pieces({"U.S.", "U.S.A."}),
        k \in DOMAIN starterAlts,
        post \in Texts(Pieces({" ", ",", ".", "s", "\t"}) \cup {<< "U+2003" >>},
                      MaxAround)}

SpecAcronym == InitOn(Examples \cup AcronymTexts) /\ [][Next]_vars

----------------------------------------------------------------------------
(* The claims.                                                             *)

Done == pc = "done"

\* The input of process_substitutions (lines 69-70).
Normalized(t) ==
    StrReplace(<< " " >> \o t \o << " ", " " >>, << "\n" >>, << " " >>)

TokenFree(t) == ~Contains(t, PRD) /\ ~Contains(t, STOP)

Positions(t) == 1..Len(t)

(* Where the boundaries fall in the input.  t is the input of               *)
(* process_substitutions and b the text create_sentences splits; b is t    *)
(* with boundary tokens placed in it, and with the three changes the       *)
(* stages make to the characters of t: a whitespace character rewritten as *)
(* a space (line 94), the period of a suffix replaced by the boundary      *)
(* token (line 100), and a mark moved behind the quote that followed it    *)
(* (lines 150-157).  Walk reads t from i and b from j in step and gives    *)
(* the positions of t that a boundary token follows (cuts), and whether b  *)
(* was t, so changed, to the end (ok).                                     *)

Same(c, d) == c = d \/ (c \in whitespace /\ d = " ")

\* The mark at i of t stands behind its quote in b.
Swapped(t, i, b, j) ==
    /\ \/ At(t, i) \in {".", "?", "!"} /\ At(t, i + 1) = "\""
       \/ At(t, i) = "." /\ At(t, i + 1) = RDQUO
    /\ At(b, j) = At(t, i + 1)
    /\ At(b, j + 1) = At(t, i)

\* The period at i of t is the boundary token at j of b.
Dropped(t, i, b, j) ==
    /\ At(t, i) = "."
    /\ At(t, i + 1) = " "
    /\ StartsAt(b, j, STOP \o << " " >>)

RECURSIVE Walk(_, _, _, _)
Walk(t, i, b, j) ==
    IF j > Len(b) THEN [cuts |-> {}, ok |-> i = Len(t) + 1]
    ELSE IF Dropped(t, i, b, j)
    THEN LET w == Walk(t, i + 1, b, j + Len(STOP))
         IN  [cuts |-> {i} \cup w.cuts, ok |-> w.ok]
    ELSE IF StartsAt(b, j, STOP)
    THEN LET w == Walk(t, i, b, j + Len(STOP))
         IN  [cuts |-> {i - 1} \cup w.cuts, ok |-> w.ok]
    ELSE IF Swapped(t, i, b, j)
    THEN LET cut == StartsAt(b, j + 2, STOP)
             w == Walk(t, i + 2, b, j + 2 + (IF cut THEN Len(STOP) ELSE 0))
         IN  [cuts |-> (IF cut THEN {i} ELSE {}) \cup w.cuts, ok |-> w.ok]
    ELSE LET w == Walk(t, i + 1, b, j + 1)
         IN  [cuts |-> w.cuts, ok |-> w.ok /\ Same(At(t, i), At(b, j))]

\* The boundaries of the finished run, as positions of the input.
Boundaries == Walk(Normalized(text), 1, buf, 1)

\* C1: every maximal run of two or more periods stays whole at the end of
\* one output sentence, and the text after it starts the next sentence;
\* "Wait... What?" gives "Wait..." and "What?".
C1_EllipsisEndsSentence ==
    Done =>
      /\ text = Chars("Wait... What?")
           => sentences = << Chars("Wait..."), Chars("What?") >>
      /\ LET t == Normalized(text)
         IN  \A sp \in EllipsisMatches(t) :
               \E m \in DOMAIN sentences :
                 /\ EndsWith(sentences[m], SubSeq(t, sp[1], sp[2]))
                 /\ Strip(From(t, sp[2] + 1)) # << >> =>
                      /\ m < Len(sentences)
                      /\ StartsAt(LStrip(From(t, sp[2] + 1)), 1, sentences[m + 1])

\* t is the sentences ss in order with only whitespace between them.
RECURSIVE Reconstructs(_, _)
Reconstructs(t, ss) ==
    IF ss = << >> THEN Strip(t) = << >>
    ELSE LET u == LStrip(t)
         IN  /\ StartsAt(u, 1, Head(ss))
             /\ Reconstructs(From(u, Len(Head(ss)) + 1), Tail(ss))

\* C2: for a text without tokens, the output sentences, with the trimmed
\* whitespace put back between them, are the input with each newline
\* replaced by a space and trimmed.
C2_Reconstruction ==
    Done /\ TokenFree(text) =>
      Reconstructs(Strip(StrReplace(text, << "\n" >>, << " " >>)), sentences)

\* The period at position i of t stands between two digits.
DecimalPoint(t, i) ==
    At(t, i - 1) \in digits /\ At(t, i) = "." /\ At(t, i + 1) \in digits

\* C3 as stated: no period between two digits is a sentence boundary, also
\* in a dotted number; "The price is 3.14 dollars." is one sentence.
C3_DecimalsNeverSplit ==
    Done =>
      /\ text = Chars("The price is 3.14 dollars.") => Len(sentences) = 1
      /\ LET t == Normalized(text)
             bd == Boundaries
         IN  /\ bd.ok
             /\ \A i \in Positions(t) : DecimalPoint(t, i) => i \notin bd.cuts

\* C3 amended: a period between two digits is a sentence boundary only when
\* the digit before it closes another digit-period-digit, which the scan of
\* line 93 matched first and protected (the second period of 1.2.3).
C3_DecimalSplitOnlyAfterDecimal ==
    Done =>
      /\ text = Chars("The price is 3.14 dollars.") => Len(sentences) = 1
      /\ LET t == Normalized(text)
             bd == Boundaries
         IN  /\ bd.ok
             /\ \A i \in Positions(t) :
                  DecimalPoint(t, i) /\ i \in bd.cuts
                    => DecimalPoint(t, i - 2) /\ i - 2 \notin bd.cuts

\* C3 witness: a dotted number whose first period is kept and whose second
\* period is a boundary.
C3_Witness ==
    /\ Done
    /\ LET t == Normalized(text)
           bd == Boundaries
       IN  \E i \in Positions(t) :
             /\ DecimalPoint(t, i - 2)
             /\ i - 2 \notin bd.cuts
             /\ DecimalPoint(t, i)
             /\ i \in bd.cuts

\* C4: no period inside a match of the URL pattern is a sentence boundary:
\* every URL of the input lies whole inside one output sentence.
C4_UrlsNeverSplit ==
    Done =>
      LET t == Normalized(text)
      IN  \A sp \in UrlMatches(t) :
            \E m \in DOMAIN sentences :
              Contains(sentences[m], SubSeq(t, sp[1], sp[2]))

\* replace_placeholders, then create_sentences, on one sentence.
Rerun(s) == create_sentences(replace_placeholders(s))

\* A ".", "?" or "!" before the last character of s.
InnerMark(s) ==
    \E i \in 1..(Len(s) - 1) : At(s, i) \in {".", "?", "!"}

\* C5 as stated: replace_placeholders and create_sentences applied to any
\* returned sentence s give the one-element list [s].
C5_RerunIsIdentity ==
    Done => \A m \in DOMAIN sentences : Rerun(sentences[m]) = << sentences[m] >>

\* C5 amended: they give [s] exactly for the returned sentences s that have
\* no ".", "?" or "!" before their last character; a sentence that kept a
\* protected period inside is cut again there.
C5_RerunIsIdentityWithoutInnerMark ==
    Done =>
      \A m \in DOMAIN sentences :
        Rerun(sentences[m]) = << sentences[m] >> <=> ~InnerMark(sentences[m])

\* C5 witness: a returned sentence without inner mark, and one with a
\* protected period inside.
C5_Witness ==
    /\ Done
    /\ \E m \in DOMAIN sentences : ~InnerMark(sentences[m])
    /\ \E m \in DOMAIN sentences :
         InnerMark(sentences[m]) /\ Len(Rerun(sentences[m])) > 1

\* A two- or three-letter upper-case dotted acronym of length a at i.
AcronymAt(t, i, a) ==
    /\ a \in {4, 6}
    /\ \A j \in 0..((a \div 2) - 1) : UpperDot(t, i + 2 * j)

\* The acronym of length a at i of the input ends a sentence: a boundary
\* follows its last period and none of its other periods, some sentence ends
\* with the acronym and the next one starts with the word w.
SplitBetween(bd, i, a, w) ==
    /\ bd.ok
    /\ i + a - 1 \in bd.cuts
    /\ \A j \in i..(i + a - 2) : j \notin bd.cuts
    /\ \E m \in 1..(Len(sentences) - 1) :
         /\ EndsWith(sentences[m], SubSeq(Normalized(text), i, i + a - 1))
         /\ StartsAt(sentences[m + 1], 1, w)

\* C6 as stated: an acronym followed by a single space and a word of the
\* starter list ends a sentence after its last period, with all its periods,
\* and the starter word begins the next sentence.
C6_AcronymThenStarterWord ==
    Done =>
      LET t == Normalized(text)
          bd == Boundaries
      IN  \A i \in Positions(t), a \in {4, 6}, k \in DOMAIN starterAlts :
            LET w == starterAlts[k].w
            IN  /\ AcronymAt(t, i, a)
                /\ At(t, i + a) = " "
                /\ StartsAt(t, i + a + 1, w)
                /\ At(t, i + a + 1 + Len(w)) \notin alphabets
                => SplitBetween(bd, i, a, w)

\* C6 amended: the same, for a starter as line 16 writes it: Mr, Mrs, Ms, Dr
\* or Wherever, or one of the other words followed by a whitespace character.
C6_AcronymThenStarter ==
    Done =>
      /\ text = Chars("U.S. He left.")
           => sentences = << Chars("U.S."), Chars("He left.") >>
      /\ LET t == Normalized(text)
             bd == Boundaries
         IN  \A i \in Positions(t), a \in {4, 6}, k \in DOMAIN starterAlts :
               /\ AcronymAt(t, i, a)
               /\ At(t, i + a) = " "
               /\ StarterAt(t, i + a + 1, starterAlts[k])
               => SplitBetween(bd, i, a, starterAlts[k].w)

\* C6 witness: the acronym sentence and the starter sentence of the example.
C6_Witness ==
    /\ Done
    /\ text = Chars("U.S. He left.")
    /\ sentences = << Chars("U.S."), Chars("He left.") >>

\* A single letter at i + 1 of t, after whitespace, before a period and a
\* space.
InitialAt(t, i) ==
    /\ At(t, i) \in whitespace
    /\ AlphaDot(t, i + 1)
    /\ At(t, i + 3) = " "

\* C7: the period of a single letter that stands after whitespace and
\* before a space is no sentence boundary, also when several follow one
\* another; " J. Smith went home. He left." gives two sentences.
C7_InitialsDoNotSplit ==
    Done =>
      /\ text = Chars(" J. Smith went home. He left.")
           => sentences = << Chars("J. Smith went home."), Chars("He left.") >>
      /\ LET t == Normalized(text)
             bd == Boundaries
         IN  /\ bd.ok
             /\ \A i \in Positions(t) : InitialAt(t, i) => i + 2 \notin bd.cuts

\* C7 witness: two initials in a row and a word, in one sentence; the second
\* initial is the one rule 4 cannot match.
C7_Witness ==
    /\ Done
    /\ Len(sentences) = 1
    /\ LET t == Normalized(text)
       IN  \E i \in Positions(t) :
             /\ InitialAt(t, i)
             /\ InitialAt(t, i + 3)
             /\ At(t, i + 7) \in alphabets

\* C8: for a text without tokens, no output sentence contains "<prd>" or
\* "<stop>".
C8_NoTokenLeaks ==
    Done /\ TokenFree(text) =>
      \A m \in DOMAIN sentences : TokenFree(sentences[m])

\* C8 witness: a text whose rules placed both tokens, and one whose own
\* characters nearly spell a token.
C8_Witness ==
    /\ Done
    /\ TokenFree(text)
    /\ \/ text = Chars("U.S. He left.")
       \/ Contains(text, Chars("<prd")) /\ Len(sentences) > 1

\* C9: process_substitutions only places tokens at periods: for a text
\* without tokens, "<prd>" replaced by "." and "<stop>" deleted in its output
\* give back its input.
C9_RulesPreserveText ==
    pc = "substituted" /\ TokenFree(text) =>
      StrReplace(StrReplace(buf, PRD, << "." >>), STOP, << >>) = Normalized(text)

\* C10: for a text without tokens, a period directly after Mr, St, Mrs, Ms
\* or Dr is never a sentence boundary, whatever stands before and after.
C10_TitlePeriodNeverBoundary ==
    Done /\ TokenFree(text) =>
      LET t == Normalized(text)
          bd == Boundaries
      IN  /\ bd.ok
          /\ \A k \in DOMAIN prefixAlts, i \in Positions(t) :
               StartsAt(t, i, prefixAlts[k] \o << "." >>)
                 => i + Len(prefixAlts[k]) \notin bd.cuts

\* C10 witness: the title is the tail of a longer word and another sentence
\* would start after it.
C10_Witness ==
    /\ Done
    /\ text = Chars("I used ATMs. He left.")
    /\ sentences = << Chars("I used ATMs. He left.") >>

=============================================================================
